---------------------------- MODULE Spec2Model ----------------------------
(***************************************************************************)
(* Stellar-Scout, script.js: the client-side dataset store, the pagination *)
(* controller, the search / category filters and the exoplanet grid.       *)
(*                                                                         *)
(* Strings the code inspects character by character (names, host names,    *)
(* discovery methods, the search text) are sequences of one-character      *)
(* strings.  Radii are in hundredths of an Earth radius (0.5 is 50).       *)
(* A JavaScript value held by allExoplanets / filteredExoplanets is a      *)
(* record [t, v]: an array with elements v, or undefined.                  *)
(***************************************************************************)
EXTENDS Naturals, Sequences, FiniteSets

\* Number of loadMoreExoplanets() invocations explored.
MaxClicks == 2

-----------------------------------------------------------------------------
(* The entities the backend serves and the page bodies it sends.           *)

Planets == {"kepler", "trappist", "hd", "tau"}

\* planet.name
PlanetName(p) ==
    CASE p = "kepler"   -> <<"K", "e", "p">>
      [] p = "trappist" -> <<"T", "R", "e">>
      [] p = "hd"       -> <<"H", "D">>
      [] p = "tau"      -> <<"t", "a", "u">>

\* planet.hostname; <<>> is a missing (or empty) host name, both falsy
PlanetHostname(p) ==
    CASE p = "kepler"   -> <<"K", "e">>
      [] p = "trappist" -> <<>>
      [] p = "hd"       -> <<"K", "E", "P">>
      [] p = "tau"      -> <<"t", "a", "u">>

\* planet.discoverymethod; <<>> is a missing (or empty) method, both falsy
PlanetMethod(p) ==
    CASE p = "kepler"   -> <<"T", "r">>
      [] p = "trappist" -> <<>>
      [] p = "hd"       -> <<"R", "V">>
      [] p = "tau"      -> <<"T", "r", "T">>

\* planet.pl_rade in hundredths; 0 is a missing (or zero) radius, both falsy
PlanetRadius(p) ==
    CASE p = "kepler"   -> 100
      [] p = "trappist" -> 0
      [] p = "hd"       -> 40
      [] p = "tau"      -> 160

\* data.exoplanets of a well-formed response body
PageBodies ==
    { <<"kepler", "trappist">>, <<"hd", "tau">> }

\* what the user can type into #searchInput
SearchTexts == { <<>>, <<"K", "E">> }

\* the options of #discoveryMethodFilter
MethodOptions == { <<>>, <<"T", "r">> }

\* the options of #habitableFilter
HabitableOptions == { "", "habitable", "hot", "cold" }

\* page numbers a request can carry: 1, and currentPage + 1 of each click
Pages == 1..(MaxClicks + 1)

-----------------------------------------------------------------------------
(* JavaScript values and string functions.                                 *)

Arr(s) == [t |-> "array", v |-> s]

Undefined == [t |-> "undefined", v |-> <<>>]

IsArray(x) == x.t = "array"

\* String.prototype.toLowerCase, one character
LowerChar(c) ==
    CASE c = "K" -> "k"
      [] c = "E" -> "e"
      [] c = "P" -> "p"
      [] c = "T" -> "t"
      [] c = "R" -> "r"
      [] c = "H" -> "h"
      [] c = "D" -> "d"
      [] c = "V" -> "v"
      [] OTHER   -> c

\* String.prototype.toLowerCase
toLowerCase(s) == [i \in 1..Len(s) |-> LowerChar(s[i])]

\* String.prototype.includes: t occurs in s as a contiguous substring
includes(s, t) ==
    \E i \in 1..(Len(s) + 1) :
        /\ i + Len(t) - 1 <= Len(s)
        /\ \A j \in 1..Len(t) : s[i + j - 1] = t[j]

-----------------------------------------------------------------------------
(* The grid: the child nodes of #exoplanetGrid.                            *)

Node(k, p) == [kind |-> k, planet |-> p]

\* the static markup of the grid before the script touches it
MarkupHtml == << Node("markup", "") >>

\* line 127
SpinnerHtml == << Node("spinner", "") >>

\* line 155
ErrorHtml == << Node("error", "") >>

\* line 164
NoResultsHtml == << Node("noresults", "") >>

createPlanetCard(p) == Node("card", p)

CardsOf(s) == [i \in 1..Len(s) |-> createPlanetCard(s[i])]

\* displayExoplanets(exoplanets) for an array: the new content of the grid
displayExoplanets(s) ==
    IF Len(s) = 0 THEN NoResultsHtml ELSE CardsOf(s)

\* appendExoplanets(exoplanets): the new content of the grid g
appendExoplanets(g, s) == g \o CardsOf(s)


-----------------------------------------------------------------------------
(* The pure parts of the handlers.                                         *)

\* the predicate of searchExoplanets, lines 233-234; term is already lowered
SearchMatches(p, term) ==
    \/ includes(toLowerCase(PlanetName(p)), term)
    \/ /\ PlanetHostname(p) # <<>>
       /\ includes(toLowerCase(PlanetHostname(p)), term)

\* a search that narrows the current view instead of the whole dataset
SearchSource_Composed(all, filtered) == filtered

\* the array searchExoplanets filters, line 232
SearchSource(all, filtered) == all

\* the predicate of applyFilters, lines 247-265
FilterMatches(p, methodFilter, habitableFilter) ==
    LET matchesMethod ==
            IF methodFilter # <<>> /\ PlanetMethod(p) # <<>>
            THEN includes(PlanetMethod(p), methodFilter)
            ELSE TRUE
        radius == PlanetRadius(p)
        matchesHabitable ==
            IF habitableFilter # "" /\ radius # 0
            THEN CASE habitableFilter = "habitable" -> radius >= 50 /\ radius <= 150
                   [] habitableFilter = "hot"       -> radius < 50
                   [] habitableFilter = "cold"      -> radius > 150
                   [] OTHER                         -> TRUE
            ELSE TRUE
    IN  matchesMethod /\ matchesHabitable

\* the array applyFilters filters, line 246
FilterSource(all, filtered) == all

\* a page-1 load that accumulates instead of replacing
ReplaceStore_Accumulate(old, exoplanets) == old \o exoplanets

\* allExoplanets after a page-1 body, line 135 (and filteredExoplanets, 136)
ReplaceStore(old, exoplanets) == exoplanets

\* a load-more that puts the new page in front
AppendAll_Prepend(all, exoplanets) == exoplanets \o all

\* allExoplanets after the body of a page >= 2, line 139
AppendAll(all, exoplanets) == all \o exoplanets

\* a load-more that leaves the filtered view alone
AppendFiltered_Skip(filtered, exoplanets) == filtered

\* filteredExoplanets after the body of a page >= 2, line 140
AppendFiltered(filtered, exoplanets) == filtered \o exoplanets

\* a page counter that counts applied bodies
PageAfterLoad_Increment(page, cur) == cur + 1

\* currentPage after an applied body, line 144
PageAfterLoad(page, cur) == page

\* a button that is shown whatever has_more says
ButtonDisplay_AlwaysShown(has_more) == "block"

\* loadMoreBtn.style.display, lines 148-152
ButtonDisplay(has_more) == IF has_more THEN "block" ELSE "none"

\* the page loadMoreExoplanets asks for, line 283
NextPage(cur) == cur + 1

\* the grid after the catch block, line 155
GridAfterCatch(page, g) == ErrorHtml

-----------------------------------------------------------------------------
VARIABLES
    currentPage,            \* line 5
    allExoplanets,          \* line 6
    filteredExoplanets,     \* line 7
    grid,                   \* children of #exoplanetGrid
    loadMoreBtn,            \* #loadMoreBtn style.display
    searchInput,            \* #searchInput value
    discoveryMethodFilter,  \* #discoveryMethodFilter value
    habitableFilter,        \* #habitableFilter value
    pending,                \* fetches of /exoplanets?page=p awaiting their response
    initPc,                 \* where loadInitialData stands
    clicks,                 \* loadMoreExoplanets() invocations so far
    log,                    \* history: the bodies applied (lines 134-152 ran through)
    shownHasMore,           \* history: has_more of the body applied last
    last                    \* history: the step just taken

vars == << currentPage, allExoplanets, filteredExoplanets, grid, loadMoreBtn,
           searchInput, discoveryMethodFilter, habitableFilter, pending,
           initPc, clicks, log, shownHasMore, last >>

history == << log, shownHasMore >>

store == << currentPage, allExoplanets, filteredExoplanets >>

controls == << searchInput, discoveryMethodFilter, habitableFilter >>

Step(op, page) == [op |-> op, page |-> page]

Applied(page, exoplanets) == [page |-> page, data |-> exoplanets]

Record(op, page) == last' = Step(op, page)

Init ==
    /\ currentPage = 1
    /\ allExoplanets = Arr(<<>>)
    /\ filteredExoplanets = Arr(<<>>)
    /\ grid = MarkupHtml
    /\ loadMoreBtn = "markup"
    /\ searchInput = <<>>
    /\ discoveryMethodFilter = <<>>
    /\ habitableFilter = ""
    /\ pending = [p \in Pages |-> 0]
    /\ initPc = "stats"
    /\ clicks = 0
    /\ log = <<>>
    /\ shownHasMore = FALSE
    /\ last = Step("init", 1)

\* loadExoplanets(page) up to its first await, lines 124-131
IssueRequest(page) ==
    /\ grid' = IF page = 1 THEN SpinnerHtml ELSE grid
    /\ pending' = [pending EXCEPT ![page] = @ + 1]

\* loadInitialData: loadStats has settled, loadExoplanets() is called
LoadInitialData ==
    /\ initPc = "stats"
    /\ initPc' = "exoplanets"
    /\ IssueRequest(1)
    /\ Record("loadFirst", 1)
    /\ UNCHANGED << store, loadMoreBtn, controls, clicks, history >>

loadMoreExoplanets ==
    /\ clicks < MaxClicks
    /\ clicks' = clicks + 1
    /\ IssueRequest(NextPage(currentPage))
    /\ Record("loadMore", NextPage(currentPage))
    /\ UNCHANGED << store, loadMoreBtn, controls, initPc, history >>

\* the awaited fetch of page p settles: loadInitialData moves on after page 1
Settle(p) ==
    /\ pending[p] > 0
    /\ pending' = [pending EXCEPT ![p] = @ - 1]
    /\ initPc' = IF p = 1 THEN "charts" ELSE initPc

\* lines 132-152 with a well-formed body {exoplanets, has_more}
ResponseOk(p, exoplanets, has_more) ==
    /\ Settle(p)
    /\ IF p = 1
       THEN /\ allExoplanets' = Arr(ReplaceStore(allExoplanets.v, exoplanets))
            /\ filteredExoplanets' = Arr(ReplaceStore(filteredExoplanets.v, exoplanets))
            /\ grid' = displayExoplanets(filteredExoplanets'.v)
            /\ currentPage' = PageAfterLoad(p, currentPage)
            /\ loadMoreBtn' = ButtonDisplay(has_more)
            /\ log' = Append(log, Applied(p, exoplanets))
            /\ shownHasMore' = has_more
            /\ Record("applied", p)
       ELSE IF ~IsArray(allExoplanets)
       THEN \* line 139 throws: undefined is not iterable
            /\ grid' = GridAfterCatch(p, grid)
            /\ Record("applyThrew", p)
            /\ UNCHANGED << store, loadMoreBtn, history >>
       ELSE IF ~IsArray(filteredExoplanets)
       THEN \* line 140 throws after line 139 has assigned
            /\ allExoplanets' = Arr(AppendAll(allExoplanets.v, exoplanets))
            /\ grid' = GridAfterCatch(p, grid)
            /\ Record("applyThrew", p)
            /\ UNCHANGED << currentPage, filteredExoplanets, loadMoreBtn, history >>
       ELSE /\ allExoplanets' = Arr(AppendAll(allExoplanets.v, exoplanets))
            /\ filteredExoplanets' = Arr(AppendFiltered(filteredExoplanets.v, exoplanets))
            /\ grid' = appendExoplanets(grid, exoplanets)
            /\ currentPage' = PageAfterLoad(p, currentPage)
            /\ loadMoreBtn' = ButtonDisplay(has_more)
            /\ log' = Append(log, Applied(p, exoplanets))
            /\ shownHasMore' = has_more
            /\ Record("applied", p)
    /\ UNCHANGED << controls, clicks >>

\* fetch rejects (line 131) or the body is not JSON (line 132): the catch block
FetchFailed(p, why) ==
    /\ Settle(p)
    /\ grid' = GridAfterCatch(p, grid)
    /\ Record(why, p)
    /\ UNCHANGED << store, loadMoreBtn, controls, clicks, history >>

\* the body is a JSON object without an exoplanets list: data.exoplanets is
\* undefined
ResponseMalformed(p) ==
    /\ Settle(p)
    /\ IF p = 1
       THEN \* lines 135-136 assign undefined, displayExoplanets throws on .length
            /\ allExoplanets' = Undefined
            /\ filteredExoplanets' = Undefined
       ELSE \* line 139 throws: undefined is not iterable
            UNCHANGED << allExoplanets, filteredExoplanets >>
    /\ grid' = GridAfterCatch(p, grid)
    /\ Record("malformed", p)
    /\ UNCHANGED << currentPage, loadMoreBtn, controls, clicks, history >>

\* displayExoplanets(filteredExoplanets) at the end of a handler: it throws on
\* undefined before it touches the grid
Redisplay ==
    grid' = IF IsArray(filteredExoplanets')
            THEN displayExoplanets(filteredExoplanets'.v)
            ELSE grid

\* the debounced input handler of #searchInput (lines 495-500) runs with the
\* text the user has typed
searchExoplanets(text) ==
    LET searchTerm == toLowerCase(text)
    IN  /\ searchInput' = text
        /\ IF searchTerm = <<>>
           THEN filteredExoplanets' = allExoplanets
           ELSE IF IsArray(allExoplanets)
           THEN filteredExoplanets' =
                    Arr(SelectSeq(SearchSource(allExoplanets.v, filteredExoplanets.v),
                                  LAMBDA p : SearchMatches(p, searchTerm)))
           ELSE \* undefined.filter throws
                filteredExoplanets' = filteredExoplanets
        /\ IF searchTerm # <<>> /\ ~IsArray(allExoplanets)
           THEN grid' = grid
           ELSE Redisplay
        /\ Record("search", 1)
        /\ UNCHANGED << currentPage, allExoplanets, loadMoreBtn,
                        discoveryMethodFilter, habitableFilter, pending,
                        initPc, clicks, history >>

\* applyFilters runs with the options the user has selected
applyFilters(method, habitable) ==
    /\ discoveryMethodFilter' = method
    /\ habitableFilter' = habitable
    /\ IF IsArray(allExoplanets)
       THEN /\ filteredExoplanets' =
                    Arr(SelectSeq(FilterSource(allExoplanets.v, filteredExoplanets.v),
                                  LAMBDA p : FilterMatches(p, method, habitable)))
            /\ Redisplay
       ELSE \* undefined.filter throws
            UNCHANGED << filteredExoplanets, grid >>
    /\ Record("filter", 1)
    /\ UNCHANGED << currentPage, allExoplanets, loadMoreBtn, searchInput,
                    pending, initPc, clicks, history >>

resetFilters ==
    /\ searchInput' = <<>>
    /\ discoveryMethodFilter' = <<>>
    /\ habitableFilter' = ""
    /\ filteredExoplanets' = allExoplanets
    /\ Redisplay
    /\ Record("reset", 1)
    /\ UNCHANGED << currentPage, allExoplanets, loadMoreBtn, pending, initPc,
                    clicks, history >>

Next ==
    \/ LoadInitialData
    \/ loadMoreExoplanets
    \/ \E p \in Pages, exoplanets \in PageBodies, has_more \in BOOLEAN :
           ResponseOk(p, exoplanets, has_more)
    \/ \E p \in Pages, why \in {"rejected", "undecodable"} : FetchFailed(p, why)
    \/ \E p \in Pages : ResponseMalformed(p)
    \/ \E text \in SearchTexts : searchExoplanets(text)
    \/ \E m \in MethodOptions, h \in HabitableOptions : applyFilters(m, h)
    \/ resetFilters

Spec == Init /\ [][Next]_vars

-----------------------------------------------------------------------------
(* Vocabulary of the properties.                                           *)

RECURSIVE IsSubsequence(_, _)
\* s can be obtained from t by deleting elements
IsSubsequence(s, t) ==
    IF s = <<>> THEN TRUE
    ELSE IF t = <<>> THEN FALSE
    ELSE IF Head(s) = Head(t) THEN IsSubsequence(Tail(s), Tail(t))
    ELSE IsSubsequence(s, Tail(t))

IsPrefix(s, t) == Len(s) <= Len(t) /\ SubSeq(t, 1, Len(s)) = s

IsSuffix(s, t) ==
    Len(s) <= Len(t) /\ SubSeq(t, Len(t) - Len(s) + 1, Len(t)) = s

RECURSIVE Keep(_, _)
\* the elements of s that are in the set keep, in the order of s
Keep(s, keep) ==
    IF s = <<>> THEN <<>>
    ELSE IF Head(s) \in keep THEN <<Head(s)>> \o Keep(Tail(s), keep)
    ELSE Keep(Tail(s), keep)

\* the planets a search text selects: no text selects all of them
SearchSelects(text) ==
    { p \in Planets : text = <<>> \/ SearchMatches(p, toLowerCase(text)) }

\* the planets the two category filters select
FiltersSelect(method, habitable) ==
    { p \in Planets : FilterMatches(p, method, habitable) }

\* the card nodes of a grid, in order
CardNodes(g) == SelectSeq(g, LAMBDA n : n.kind = "card")

FailureOps == {"rejected", "undecodable", "malformed"}

\* this step ran lines 134-152 through for a well-formed body
AppliedStep == Len(log') = Len(log) + 1

LastApplied == log[Len(log)]

FirstPageLoaded == \E i \in 1..Len(log) : log[i].page = 1

\* a load-more body has been applied
HasAppended(l) == \E i \in 1..Len(l) : l[i].page >= 2

\* the last two bodies applied answered two requests for the same page >= 2,
\* and the second has just been applied
DoubleApplied ==
    /\ last.op = "applied"
    /\ Len(log) >= 2
    /\ log[Len(log)].page >= 2
    /\ log[Len(log) - 1].page = log[Len(log)].page

-----------------------------------------------------------------------------
\* C1: in every reachable state filteredExoplanets is a subsequence of
\* allExoplanets: its elements occur in allExoplanets in the same relative
\* order (both hold undefined, with no elements, after a page-1 body without
\* an exoplanets list).
C1_FilteredIsSubsequence ==
    /\ filteredExoplanets.t = allExoplanets.t
    /\ IsSubsequence(filteredExoplanets.v, allExoplanets.v)

\* a load-more body has been appended to a view that a search or a filter had
\* narrowed
C1_Witness ==
    /\ last.op = "applied"
    /\ last.page >= 2
    /\ Len(filteredExoplanets.v) > Len(LastApplied.data)
    /\ Len(filteredExoplanets.v) < Len(allExoplanets.v)

\* C2: a failed page fetch (rejected, undecodable, or a body without the
\* exoplanets list), for page 1 as for any later page, leaves allExoplanets,
\* filteredExoplanets and currentPage as they were.
C2_FailedFetchLeavesStore ==
    [][ last'.op \in FailureOps =>
            /\ allExoplanets' = allExoplanets
            /\ filteredExoplanets' = filteredExoplanets
            /\ currentPage' = currentPage ]_vars

\* C3: every applied load-more body D leaves allExoplanets equal to its
\* previous value followed by D and increases currentPage by exactly one
\* (stated for the bodies applied once the first page is loaded).
C3_LoadMoreAdvancesByOne ==
    [][ (AppliedStep /\ last'.page >= 2 /\ FirstPageLoaded) =>
            /\ allExoplanets'.v = allExoplanets.v \o log'[Len(log')].data
            /\ currentPage' = currentPage + 1 ]_vars

C6_ButtonFollowsHasMore ==
    Len(log) >= 1 =>
        /\ loadMoreBtn \in {"block", "none"}
        /\ loadMoreBtn = "block" <=> shownHasMore

\* a later body with has_more = false has hidden the button
C6_Witness ==
    /\ Len(log) >= 2
    /\ last.op = "applied"
    /\ ~shownHasMore
    /\ loadMoreBtn = "none"

\* C7: a failed fetch of a page >= 2 leaves the grid as it was (stated for the
\* grid of a loaded first page); a failed fetch of page 1 replaces it by the
\* error message.
C7_LoadMoreFailureKeepsGrid ==
    [][ last'.op \in FailureOps =>
            /\ (last'.page >= 2 /\ FirstPageLoaded) => grid' = grid
            /\ last'.page = 1 => grid' = ErrorHtml ]_vars

\* C8: after searchExoplanets the view is the elements of allExoplanets the
\* search text selects, whatever the category filters say; after applyFilters
\* it is the elements the two category filters select, whatever the search
\* text is.
C8_SearchAndFiltersDoNotCompose ==
    /\ last.op = "search" =>
           filteredExoplanets.v = Keep(allExoplanets.v, SearchSelects(searchInput))
    /\ last.op = "filter" =>
           filteredExoplanets.v =
               Keep(allExoplanets.v,
                    FiltersSelect(discoveryMethodFilter, habitableFilter))

\* a search has brought back an entity the selected category filters exclude
C8_Witness ==
    /\ last.op = "search"
    /\ searchInput # <<>>
    /\ \E i \in 1..Len(filteredExoplanets.v) :
           filteredExoplanets.v[i]
               \notin FiltersSelect(discoveryMethodFilter, habitableFilter)
    /\ Len(filteredExoplanets.v) < Len(allExoplanets.v)

\* C9: an applied load-more body is appended whole to filteredExoplanets,
\* whatever search text or category filter is active.
C9_LoadMoreAppendsUnfiltered ==
    [][ (AppliedStep /\ last'.page >= 2) =>
            filteredExoplanets'.v =
                filteredExoplanets.v \o log'[Len(log')].data ]_vars

\* a load-more body has been appended under an active search, and the view
\* holds an entity the search text does not select
C9_Witness ==
    /\ last.op = "applied"
    /\ last.page >= 2
    /\ searchInput # <<>>
    /\ discoveryMethodFilter = <<>>
    /\ habitableFilter = ""
    /\ Len(filteredExoplanets.v) < Len(allExoplanets.v)
    /\ \E i \in 1..Len(filteredExoplanets.v) :
           filteredExoplanets.v[i] \notin SearchSelects(searchInput)
    /\ filteredExoplanets.v # Keep(allExoplanets.v, SearchSelects(searchInput))

\* C10: once the first page has been loaded, the cards in the grid are those
\* of filteredExoplanets, one to one and in order, and an empty view shows the
\* 'no results' placeholder.
C10_GridShowsFiltered ==
    FirstPageLoaded =>
        /\ CardNodes(grid) = CardsOf(filteredExoplanets.v)
        /\ Len(filteredExoplanets.v) = 0 => grid = NoResultsHtml

=============================================================================
